---- MODULE Spec2Model ----
(***************************************************************************)
(* A model of src/app.py, the "Beans to Bars" chocolate sales dashboard.   *)
(*                                                                         *)
(* The script is a Streamlit page: every page load and every widget        *)
(* interaction runs the whole script top to bottom.  load_data is wrapped  *)
(* in st.cache_data, the two multiselect widgets keep their selection in   *)
(* the session, and everything else is recomputed by each run.             *)
(*                                                                         *)
(* Text is modelled as a sequence of one-character strings, amounts as a   *)
(* whole number of cents (floating-point rounding is not modelled), and a  *)
(* float as a record that says whether it is finite, NaN or infinite.      *)
(***************************************************************************)
EXTENDS Integers, Sequences, FiniteSets, TLC

VARIABLES
    file,       \* the rows of 'Chocolate Sales.csv' on disk
    cache,      \* st.cache_data's entry for load_data
    reads,      \* how many times pd.read_csv has run in this process
    readRows,   \* the rows the last pd.read_csv returned
    widgets,    \* whether the session holds the two multiselect widgets
    countries,  \* the "Countries" multiselect's selection
    products,   \* the "Products" multiselect's selection
    out,        \* what the last script run put on the page
    reloaded    \* load_data's outcome on the downloaded export, if tried

vars == <<file, cache, reads, readRows, widgets, countries, products, out, reloaded>>

(***************************************************************************)
(* Bounds of the model.                                                    *)
(***************************************************************************)
MaxRows == 2

MaxReads == 2

(***************************************************************************)
(* Characters and numbers.                                                 *)
(***************************************************************************)
Digits == <<"0", "1", "2", "3", "4", "5", "6", "7", "8", "9">>

IsDigit(c) == \E i \in 1..10 : Digits[i] = c

DigitVal(c) == (CHOOSE i \in 1..10 : Digits[i] = c) - 1

AllDigits(s) == \A i \in 1..Len(s) : IsDigit(s[i])

RECURSIVE ToInt(_)
ToInt(s) ==
    IF s = <<>> THEN 0
    ELSE 10 * ToInt(SubSeq(s, 1, Len(s) - 1)) + DigitVal(s[Len(s)])

RECURSIVE IntToChars(_)
IntToChars(n) ==
    IF n < 10 THEN <<Digits[n + 1]>>
    ELSE IntToChars(n \div 10) \o <<Digits[(n % 10) + 1]>>

Pad2(n) == <<Digits[(n \div 10) + 1], Digits[(n % 10) + 1]>>

(***************************************************************************)
(* Floats.  A finite value is a number of cents.                           *)
(***************************************************************************)
Fin(v) == [kind |-> "fin", v |-> v]

NaN == [kind |-> "nan", v |-> 0]

\* float / int as pandas divides two columns: x/0 is inf, 0/0 and NaN/x are NaN
Divide(a, b) ==
    IF a.kind = "nan" THEN [kind |-> "nan", num |-> 0, den |-> 1]
    ELSE IF b = 0
         THEN IF a.v = 0 THEN [kind |-> "nan", num |-> 0, den |-> 1]
              ELSE [kind |-> "inf", num |-> 0, den |-> 1]
         ELSE [kind |-> "fin", num |-> a.v, den |-> b]

\* Series.sum(): skipna, so a NaN counts as nothing
RECURSIVE SumAmount(_)
SumAmount(rows) ==
    IF rows = <<>> THEN 0
    ELSE (IF Head(rows).Amount.kind = "fin" THEN Head(rows).Amount.v ELSE 0)
         + SumAmount(Tail(rows))

RECURSIVE SumBoxes(_)
SumBoxes(rows) ==
    IF rows = <<>> THEN 0 ELSE Head(rows).Boxes + SumBoxes(Tail(rows))

(***************************************************************************)
(* pd.read_csv: a cell that is empty is NA; a column whose cells are all   *)
(* numbers or NA (and that has a row) gets a numeric dtype, any other      *)
(* column is of dtype object and holds strings.                            *)
(***************************************************************************)
IsNA(cell) == cell = <<>>

\* a cell the parser reads as a number: digits with at most one "."
IsNumericCell(s) ==
    /\ \A i \in 1..Len(s) : IsDigit(s[i]) \/ s[i] = "."
    /\ Cardinality({i \in 1..Len(s) : s[i] = "."}) <= 1
    /\ \E i \in 1..Len(s) : IsDigit(s[i])

AmountIsObject(rows) ==
    \/ rows = <<>>
    \/ \E i \in 1..Len(rows) : ~IsNA(rows[i].Amount) /\ ~IsNumericCell(rows[i].Amount)

(***************************************************************************)
(* df['Amount'].str.replace('[$,]', '', regex=True).astype(float)          *)
(***************************************************************************)
StripCurrency(s) == SelectSeq(s, LAMBDA c : c \notin {"$", ","})

\* float(text) for the texts of the model's alphabet: digits with at most one
\* ".", at least one digit; the value in cents (digits past the second
\* decimal are dropped)
ParseFloat(s) ==
    LET dots == {i \in 1..Len(s) : s[i] = "."}
        dot  == IF dots = {} THEN Len(s) + 1 ELSE CHOOSE i \in dots : TRUE
        ip   == SubSeq(s, 1, dot - 1)
        fp   == SubSeq(s, dot + 1, Len(s))
        f2   == SubSeq(fp \o <<"0", "0">>, 1, 2)
    IN IF /\ Cardinality(dots) <= 1
          /\ AllDigits(ip) /\ AllDigits(fp)
          /\ Len(ip) + Len(fp) > 0
       THEN [ok |-> TRUE, v |-> 100 * ToInt(ip) + ToInt(f2)]
       ELSE [ok |-> FALSE, v |-> 0]

\* one element of the column: NA stays NaN, a string is stripped and converted
AmountOf(cell) ==
    IF IsNA(cell) THEN [ok |-> TRUE, val |-> NaN]
    ELSE LET p == ParseFloat(StripCurrency(cell))
         IN [ok |-> p.ok, val |-> Fin(p.v)]

(***************************************************************************)
(* pd.to_datetime(df['Date'], format='%d-%b-%y', errors='coerce')          *)
(***************************************************************************)
MonthAbbr ==
    << <<"J","a","n">>, <<"F","e","b">>, <<"M","a","r">>, <<"A","p","r">>,
       <<"M","a","y">>, <<"J","u","n">>, <<"J","u","l">>, <<"A","u","g">>,
       <<"S","e","p">>, <<"O","c","t">>, <<"N","o","v">>, <<"D","e","c">> >>

RECURSIVE SplitDash(_)
SplitDash(s) ==
    IF \A i \in 1..Len(s) : s[i] # "-" THEN <<s>>
    ELSE LET k == CHOOSE i \in 1..Len(s) :
                      s[i] = "-" /\ \A j \in 1..(i - 1) : s[j] # "-"
         IN <<SubSeq(s, 1, k - 1)>> \o SplitDash(SubSeq(s, k + 1, Len(s)))

IsLeap(y) == (y % 4 = 0 /\ y % 100 # 0) \/ y % 400 = 0

DaysInMonth(y, m) ==
    IF m = 2 THEN (IF IsLeap(y) THEN 29 ELSE 28)
    ELSE IF m \in {4, 6, 9, 11} THEN 30 ELSE 31

\* %d is one or two digits, 1..31; %b a month abbreviation; %y exactly two
\* digits, 69..99 in the 1900s and 00..68 in the 2000s.  Anything else, an
\* NA cell included, is NaT.
ToDatetime(cell) ==
    LET f == SplitDash(cell)
    IN IF /\ Len(f) = 3
          /\ Len(f[1]) \in {1, 2} /\ AllDigits(f[1])
          /\ \E m \in 1..12 : MonthAbbr[m] = f[2]
          /\ Len(f[3]) = 2 /\ AllDigits(f[3])
       THEN LET d  == ToInt(f[1])
                m  == CHOOSE k \in 1..12 : MonthAbbr[k] = f[2]
                yy == ToInt(f[3])
                y  == IF yy >= 69 THEN 1900 + yy ELSE 2000 + yy
            IN IF d >= 1 /\ d <= DaysInMonth(y, m)
               THEN [nat |-> FALSE, y |-> y, m |-> m, d |-> d]
               ELSE [nat |-> TRUE, y |-> 0, m |-> 0, d |-> 0]
       ELSE [nat |-> TRUE, y |-> 0, m |-> 0, d |-> 0]

MonthNames ==
    <<"January", "February", "March", "April", "May", "June", "July",
      "August", "September", "October", "November", "December">>

\* Series.dt.month_name()
MonthName(date) == MonthNames[date.m]

DayNames ==
    <<"Sunday", "Monday", "Tuesday", "Wednesday", "Thursday", "Friday", "Saturday">>

\* Series.dt.day_name()
DayName(date) ==
    LET t  == <<0, 3, 2, 5, 0, 3, 5, 1, 4, 6, 2, 4>>
        yy == IF date.m < 3 THEN date.y - 1 ELSE date.y
    IN DayNames[((yy + (yy \div 4) - (yy \div 100) + (yy \div 400)
                  + t[date.m] + date.d) % 7) + 1]

(***************************************************************************)
(* load_data                                                               *)
(***************************************************************************)
\* a dropna that stops at the first NaT and loses the rows after it
RECURSIVE DropNaT_StopAtFirst(_)
DropNaT_StopAtFirst(rows) ==
    IF rows = <<>> \/ Head(rows).Date.nat THEN <<>>
    ELSE <<Head(rows)>> \o DropNaT_StopAtFirst(Tail(rows))

\* df.dropna(subset=['Date']): the rows whose Date is not NaT, labels kept
RECURSIVE DropNaT(_)
DropNaT(rows) ==
    IF rows = <<>> THEN <<>>
    ELSE IF Head(rows).Date.nat THEN DropNaT(Tail(rows))
         ELSE <<Head(rows)>> \o DropNaT(Tail(rows))

\* lines 47-49: the derived columns
Derive(r) ==
    [idx |-> r.idx, Country |-> r.Country, Product |-> r.Product,
     Date |-> [y |-> r.Date.y, m |-> r.Date.m, d |-> r.Date.d],
     Amount |-> r.Amount, Boxes |-> r.Boxes,
     Month |-> MonthName(r.Date), Year |-> r.Date.y,
     RevPerBox |-> Divide(r.Amount, r.Boxes)]

\* lines 44-45: the Amount and Date columns converted; idx is the row's label
Converted(rows) ==
    [i \in 1..Len(rows) |->
        [idx |-> i, Country |-> rows[i].Country, Product |-> rows[i].Product,
         Date |-> ToDatetime(rows[i].Date),
         Amount |-> AmountOf(rows[i].Amount).val,
         Boxes |-> rows[i].Boxes]]

DeriveAll(kept) == [k \in 1..Len(kept) |-> Derive(kept[k])]

\* the body of load_data on the rows read: an error, or the canonical table
LoadRows(rows) ==
    IF ~AmountIsObject(rows)
    THEN [error |-> "AttributeError", df |-> <<>>]
    ELSE IF \E i \in 1..Len(rows) : ~AmountOf(rows[i].Amount).ok
    THEN [error |-> "ValueError", df |-> <<>>]
    ELSE [error |-> "", df |-> DeriveAll(DropNaT(Converted(rows)))]

(***************************************************************************)
(* groupby(...) sorts its groups by key.  The keys are names, years and    *)
(* dates; SortedNames is the order Python gives the names of the model.    *)
(***************************************************************************)
SortedNames ==
    <<"Atlantis", "Australia", "Canada", "Eclairs", "India", "Milk Bars",
      "Mint Chip Choco", "White Choc">>

NameRank(n) == CHOOSE i \in 1..Len(SortedNames) : SortedNames[i] = n

\* the place of each month's name among the twelve names in alphabetical order
MonthNameRank == <<5, 4, 8, 1, 9, 7, 6, 2, 12, 11, 10, 3>>

MonthOf(name) == CHOOSE m \in 1..12 : MonthNames[m] = name

\* the keys of S in ascending order of their code
RECURSIVE SortCoded(_, _)
SortCoded(S, code) ==
    IF S = {} THEN <<>>
    ELSE LET m == CHOOSE x \in S : \A y \in S : code[x] <= code[y]
         IN <<m>> \o SortCoded(S \ {m}, code)

KeyCountry(r) == r.Country
KeyProduct(r) == r.Product
KeyDate(r) == r.Date
KeyCountryProduct(r) == [Country |-> r.Country, Product |-> r.Product]
KeyYearMonth(r) == [Year |-> r.Year, Month |-> r.Month]
KeyYearProduct(r) == [Year |-> r.Year, Product |-> r.Product]

\* the value of the column or columns named by, in row r
KeyOf(by, r) ==
    CASE by = "Country" -> KeyCountry(r)
      [] by = "Product" -> KeyProduct(r)
      [] by = "Date" -> KeyDate(r)
      [] by = "Country,Product" -> KeyCountryProduct(r)
      [] by = "Year,Month" -> KeyYearMonth(r)
      [] by = "Year,Product" -> KeyYearProduct(r)

CodeName(k) == NameRank(k)
CodeDate(k) == (k.y * 100 + k.m) * 100 + k.d
CodeCountryProduct(k) == NameRank(k.Country) * 100 + NameRank(k.Product)
CodeYearMonth(k) == k.Year * 100 + MonthNameRank[MonthOf(k.Month)]
CodeYearProduct(k) == k.Year * 100 + NameRank(k.Product)

\* a number that orders the keys of the columns named by as sorting them does
CodeOf(by, k) ==
    CASE by = "Country" -> CodeName(k)
      [] by = "Product" -> CodeName(k)
      [] by = "Date" -> CodeDate(k)
      [] by = "Country,Product" -> CodeCountryProduct(k)
      [] by = "Year,Month" -> CodeYearMonth(k)
      [] by = "Year,Product" -> CodeYearProduct(k)

SortKeys(by, S) == SortCoded(S, [x \in S |-> CodeOf(by, x)])

\* DataFrame.groupby(keys): the groups in key order, each with its rows in
\* their order in the frame
GroupsOf(rows, by, ks) ==
    [g \in 1..Len(ks) |->
        [key |-> ks[g], rows |-> SelectSeq(rows, LAMBDA r : KeyOf(by, r) = ks[g])]]

GroupBy(rows, by) ==
    GroupsOf(rows, by, SortKeys(by, {KeyOf(by, rows[i]) : i \in 1..Len(rows)}))

\* nlargest with keep='last': among equal values the later one comes first
RECURSIVE NLargest_KeepLast(_, _)
NLargest_KeepLast(s, n) ==
    IF n = 0 \/ s = <<>> THEN <<>>
    ELSE LET k == CHOOSE i \in 1..Len(s) :
                      /\ \A j \in 1..Len(s) : s[j].Amount <= s[i].Amount
                      /\ \A j \in (i + 1)..Len(s) : s[j].Amount < s[i].Amount
         IN <<s[k]>> \o NLargest_KeepLast(SubSeq(s, 1, k - 1) \o SubSeq(s, k + 1, Len(s)), n - 1)

\* Series.nlargest(n), keep='first': the n largest in descending order, equal
\* values in the order they have in the series
RECURSIVE NLargest(_, _)
NLargest(s, n) ==
    IF n = 0 \/ s = <<>> THEN <<>>
    ELSE LET k == CHOOSE i \in 1..Len(s) :
                      /\ \A j \in 1..Len(s) : s[j].Amount <= s[i].Amount
                      /\ \A j \in 1..(i - 1) : s[j].Amount < s[i].Amount
         IN <<s[k]>> \o NLargest(SubSeq(s, 1, k - 1) \o SubSeq(s, k + 1, Len(s)), n - 1)

\* line 151: nlargest(15)
TopCombosN == 15

\* lines 196, 236, 341: nlargest(10)
TopN == 10

(***************************************************************************)
(* The sidebar and the filter (lines 57-75).                               *)
(***************************************************************************)
\* df[col].unique()
Unique(df, by) == {KeyOf(by, df[i]) : i \in 1..Len(df)}

\* Series.isin(values): the boolean mask
IsIn(df, by, values) == [i \in 1..Len(df) |-> KeyOf(by, df[i]) \in values]

\* df[mask]: the rows whose mask is True
RECURSIVE MaskRows(_, _)
MaskRows(df, mask) ==
    IF df = <<>> THEN <<>>
    ELSE (IF mask[1] THEN <<Head(df)>> ELSE <<>>)
         \o MaskRows(Tail(df), Tail(mask))

\* a filter that reads an empty selection as "no filter"
filtered_df_EmptyMeansAll(df, selC, selP) ==
    LET mc == IsIn(df, "Country", IF selC = {} THEN Unique(df, "Country") ELSE selC)
        mp == IsIn(df, "Product", IF selP = {} THEN Unique(df, "Product") ELSE selP)
    IN MaskRows(df, [i \in 1..Len(df) |-> mc[i] /\ mp[i]])

filtered_df(df, selC, selP) ==
    LET mc == IsIn(df, "Country", selC)
        mp == IsIn(df, "Product", selP)
    IN MaskRows(df, [i \in 1..Len(df) |-> mc[i] /\ mp[i]])

(***************************************************************************)
(* The aggregates, each from the filtered view fd.                         *)
(***************************************************************************)
\* groupby(keys)['Amount'].sum().reset_index()
SumGroups(g) ==
    [i \in 1..Len(g) |-> [key |-> g[i].key, Amount |-> SumAmount(g[i].rows)]]

SumBy(fd, by) == SumGroups(GroupBy(fd, by))

monthly_sales(fd) == SumBy(fd, "Year,Month")

daily_sales(fd) == SumBy(fd, "Date")

top_combos(fd) == NLargest(SumBy(fd, "Country,Product"), TopCombosN)

\* pycountry's lookup behind try/except: a code, or None
country_to_iso(name) ==
    IF name = "Australia" THEN "AUS"
    ELSE IF name = "Canada" THEN "CAN"
    ELSE IF name = "India" THEN "IND"
    ELSE "None"

\* country_sales['Country'].apply(country_to_iso)
WithISO(t) ==
    [i \in 1..Len(t) |->
        [key |-> t[i].key, Amount |-> t[i].Amount, ISO |-> country_to_iso(t[i].key)]]

country_sales_map(fd) == WithISO(SumBy(fd, "Country"))

top_products(fd) == NLargest(SumBy(fd, "Product"), TopN)

\* weekday_sales['Date'].dt.day_name()
WithWeekday(t) ==
    [i \in 1..Len(t) |->
        [key |-> t[i].key, Amount |-> t[i].Amount, Weekday |-> DayName(t[i].key)]]

weekday_sales(fd) == WithWeekday(SumBy(fd, "Date"))

\* strftime('%b %d, %Y')
FormattedDate(date) ==
    MonthAbbr[date.m] \o <<" ">> \o Pad2(date.d) \o <<",", " ">> \o IntToChars(date.y)

WithFormattedDate(t) ==
    [i \in 1..Len(t) |->
        [key |-> t[i].key, Amount |-> t[i].Amount,
         FormattedDate |-> FormattedDate(t[i].key)]]

top_days(fd) == WithFormattedDate(NLargest(SumBy(fd, "Date"), TopN))

\* groupby(keys).agg({'Amount': 'sum', 'Boxes Shipped': 'sum'}) and the ratio
\* column Amount / Boxes Shipped
RatioGroups(g) ==
    [i \in 1..Len(g) |->
        [key |-> g[i].key,
         Amount |-> SumAmount(g[i].rows),
         Boxes |-> SumBoxes(g[i].rows),
         Ratio |-> Divide(Fin(SumAmount(g[i].rows)), SumBoxes(g[i].rows))]]

RatioBy(fd, by) == RatioGroups(GroupBy(fd, by))

growth_df(fd) == RatioBy(fd, "Year,Product")

ratio_df(fd) == RatioBy(fd, "Product")

product_sales(fd) == NLargest(SumBy(fd, "Product"), TopN)

sunburst_data(fd) == SumBy(fd, "Country,Product")

\* lines 373-376 on a view with rows: idxmax() is the first label of the
\* largest sum, then max() and sum()
Performance(cs, top) ==
    LET RECURSIVE total(_)
        total(s) == IF s = <<>> THEN 0 ELSE Head(s).Amount + total(Tail(s))
    IN [top_country |-> top.key, max_sales |-> top.Amount, total_sales |-> total(cs)]

country_performance(fd) ==
    Performance(SumBy(fd, "Country"),
                NLargest(SumBy(fd, "Country"), 1)[1])

(***************************************************************************)
(* filtered_df.to_csv(index=False): dates in ISO form, amounts as floats,  *)
(* a NaN as an empty cell.  The derived columns are written too; load_data *)
(* sets them again and they are left out here.                             *)
(***************************************************************************)
FloatRepr(a) ==
    IF a.kind = "nan" THEN <<>>
    ELSE LET c == a.v % 100
         IN IntToChars(a.v \div 100) \o <<".">>
            \o (IF c % 10 = 0 THEN <<Digits[(c \div 10) + 1]>> ELSE Pad2(c))

IsoDate(date) == IntToChars(date.y) \o <<"-">> \o Pad2(date.m) \o <<"-">> \o Pad2(date.d)

to_csv(fd) ==
    [i \in 1..Len(fd) |->
        [Country |-> fd[i].Country, Product |-> fd[i].Product,
         Date |-> IsoDate(fd[i].Date), Amount |-> FloatRepr(fd[i].Amount),
         Boxes |-> fd[i].Boxes]]

(***************************************************************************)
(* One run of the script.  The sections in the order the script reaches    *)
(* them; an exception that nothing catches ends the run there.             *)
(***************************************************************************)
SectionNames ==
    <<"Key Metrics", "Monthly Sales Comparison", "Daily Sales Trend",
      "Top Products by Country", "Sales by Country (Map)",
      "Top Performing Products", "Sales by Day of Week", "Top 10 Sales Days",
      "Growth", "Volume vs Revenue", "Monthly Sales Trends",
      "Product Sales Composition", "Sales Hierarchy", "Country Performance",
      "View Raw Data">>

\* Series.idxmax() of an empty series raises ValueError (line 374)
Raises(name, fd) == name = "Country Performance" /\ fd = <<>>

\* the sections a run renders: those before the first that raises
Rendered(fd) ==
    LET bad == {i \in 1..Len(SectionNames) : Raises(SectionNames[i], fd)}
        stop == IF bad = {} THEN Len(SectionNames) + 1
                ELSE CHOOSE i \in bad : \A j \in bad : i <= j
    IN SubSeq(SectionNames, 1, stop - 1)

Shown(o, name) == \E i \in 1..Len(o.sections) : o.sections[i] = name

\* what a run shows when load_data raised at line 52: the exception alone
LoadFailed(err) ==
    [error |-> err, sections |-> <<>>, df |-> <<>>, filtered |-> <<>>,
     total_sales |-> 0, total_boxes |-> 0,
     avg_revenue |-> [kind |-> "fin", num |-> 0, den |-> 1],
     monthly_sales |-> <<>>, daily_sales |-> <<>>, top_combos |-> <<>>,
     country_sales |-> <<>>, top_products |-> <<>>, weekday_sales |-> <<>>,
     top_days |-> <<>>, growth_df |-> <<>>, ratio_df |-> <<>>,
     monthly_trend |-> <<>>, product_sales |-> <<>>, sunburst_data |-> <<>>,
     gauge |-> <<>>, csv |-> <<>>]

\* lines 77-406 with the table df and its filtered view fd
RenderView(df, fd) ==
    LET secs == Rendered(fd)
        done == Len(secs) = Len(SectionNames)
        tb   == SumBoxes(fd)
    IN [error |-> IF done THEN "" ELSE "ValueError",
        sections |-> secs,
        df |-> df,
        filtered |-> fd,
        total_sales |-> SumAmount(fd),
        total_boxes |-> tb,
        avg_revenue |-> IF tb > 0 THEN Divide(Fin(SumAmount(fd)), tb)
                        ELSE [kind |-> "fin", num |-> 0, den |-> 1],
        monthly_sales |-> monthly_sales(fd),
        daily_sales |-> daily_sales(fd),
        top_combos |-> top_combos(fd),
        country_sales |-> country_sales_map(fd),
        top_products |-> top_products(fd),
        weekday_sales |-> weekday_sales(fd),
        top_days |-> top_days(fd),
        growth_df |-> growth_df(fd),
        ratio_df |-> ratio_df(fd),
        monthly_trend |-> monthly_sales(fd),
        product_sales |-> product_sales(fd),
        sunburst_data |-> sunburst_data(fd),
        gauge |-> IF done THEN <<country_performance(fd)>> ELSE <<>>,
        csv |-> IF done THEN to_csv(fd) ELSE <<>>]

\* a run that shows again what the run before it showed
Render_Stale(df, selC, selP) ==
    IF widgets THEN out ELSE RenderView(df, filtered_df(df, selC, selP))

\* lines 71-406 with the table df and the selections selC, selP
Render(df, selC, selP) == RenderView(df, filtered_df(df, selC, selP))

NoCache == [set |-> FALSE, df |-> <<>>]

NotTried == [tried |-> FALSE, error |-> "", df |-> <<>>]

\* a load_data without the cache: every call runs the body
CachedLoad_NeverHits ==
    LET r == LoadRows(file) IN [error |-> r.error, df |-> r.df, ran |-> TRUE]

\* st.cache_data around load_data (lines 41-52): a stored value is returned
\* without running the body; a call that raises stores nothing
CachedLoad ==
    IF cache.set THEN [error |-> "", df |-> cache.df, ran |-> FALSE]
    ELSE LET r == LoadRows(file) IN [error |-> r.error, df |-> r.df, ran |-> TRUE]

\* the multiselects (lines 60-69): a widget the session holds keeps its
\* selection, a new one starts at its default, every value of the column
WidgetValue(held, default) == IF widgets THEN held ELSE default

\* the script from line 52 on, r being what load_data() gave
ScriptFrom(r, selC, selP) ==
    /\ reads' = IF r.ran THEN reads + 1 ELSE reads
    /\ readRows' = IF r.ran THEN file ELSE readRows
    /\ cache' = IF r.ran /\ r.error = "" THEN [set |-> TRUE, df |-> r.df] ELSE cache
    /\ IF r.error # ""
       THEN /\ out' = LoadFailed(r.error)
            /\ UNCHANGED <<widgets, countries, products>>
       ELSE /\ widgets' = TRUE
            /\ countries' = WidgetValue(selC, Unique(r.df, "Country"))
            /\ products' = WidgetValue(selP, Unique(r.df, "Product"))
            /\ out' = Render(r.df, countries', products')
    /\ reloaded' = NotTried
    /\ UNCHANGED file

\* the script, run with the widget values selC and selP
Script(selC, selP) == ScriptFrom(CachedLoad, selC, selP)

(***************************************************************************)
(* The operations.                                                         *)
(***************************************************************************)
\* a page load, or a rerun with the widgets as they are
Rerun ==
    /\ cache.set \/ reads < MaxReads
    /\ Script(countries, products)

\* the user adds a country to the "Countries" selection or removes it
ToggleCountry(c) ==
    /\ widgets
    /\ c \in Unique(cache.df, "Country")
    /\ Script(IF c \in countries THEN countries \ {c} ELSE countries \cup {c}, products)

\* the user adds a product to the "Products" selection or removes it
ToggleProduct(p) ==
    /\ widgets
    /\ p \in Unique(cache.df, "Product")
    /\ Script(countries, IF p \in products THEN products \ {p} ELSE products \cup {p})

\* the file on disk changes under the running process: it is cut back to its
\* header line
EditFile ==
    /\ file # <<>>
    /\ file' = <<>>
    /\ UNCHANGED <<cache, reads, readRows, widgets, countries, products, out, reloaded>>

Reloaded(r) == [tried |-> TRUE, error |-> r.error, df |-> r.df]

\* the user downloads chocolate_sales.csv (lines 400-406) and load_data's
\* body is run on it
RoundTrip ==
    /\ Shown(out, "View Raw Data")
    /\ ~reloaded.tried
    /\ reloaded' = Reloaded(LoadRows(out.csv))
    /\ UNCHANGED <<file, cache, reads, readRows, widgets, countries, products, out>>

Next ==
    \/ Rerun
    \/ \E c \in {"Atlantis", "Australia", "Canada", "India"} : ToggleCountry(c)
    \/ \E p \in {"Eclairs", "Milk Bars", "Mint Chip Choco", "White Choc"} : ToggleProduct(p)
    \/ EditFile
    \/ RoundTrip

(***************************************************************************)
(* The files the process may start on.                                     *)
(***************************************************************************)
D05Jan22 == <<"0","5","-","J","a","n","-","2","2">>
D06Feb23 == <<"6","-","F","e","b","-","2","3">>
D31Feb22 == <<"3","1","-","F","e","b","-","2","2">>
D05Mar99 == <<"0","5","-","M","a","r","-","9","9">>
DIso     == <<"2","0","2","2","-","0","1","-","0","5">>
DNotADate == <<"n","o","t","-","a","-","d","a","t","e">>

SeqsUpTo(S, n) == UNION {[1..k -> S] : k \in 0..n}

\* well-formed records over two countries and two products; some ship no box
RenderRows ==
    {[Country |-> c, Product |-> p, Date |-> x.Date, Amount |-> x.Amount, Boxes |-> x.Boxes] :
        c \in {"Canada", "India"}, p \in {"Eclairs", "Milk Bars"},
        x \in {[Date |-> D05Jan22, Amount |-> <<"$","2">>, Boxes |-> 0],
               [Date |-> D06Feb23, Amount |-> <<"$","1",".","5">>, Boxes |-> 2]}}

\* records of one country and product whose amount and date cells vary
LoadRowSet ==
    {[Country |-> "India", Product |-> "Eclairs", Date |-> x[1], Amount |-> x[2], Boxes |-> 1] :
        x \in {<<D05Jan22, <<"$","1">>>>,
               <<D05Jan22, <<"$","1",",","0","0","0",".","5">>>>,
               <<D05Jan22, <<"1","2">>>>,
               <<D05Jan22, <<>>>>,
               <<D05Jan22, <<"$">>>>,
               <<D05Jan22, <<"$","1","x">>>>,
               <<D06Feb23, <<"$","2">>>>,
               <<D05Mar99, <<"$","1">>>>,
               <<D31Feb22, <<"$","1">>>>,
               <<DNotADate, <<"$","1">>>>,
               <<DIso, <<"$","1">>>>,
               <<<<>>, <<"$","1">>>>}}

Init0 ==
    /\ cache = NoCache
    /\ reads = 0
    /\ readRows = <<>>
    /\ widgets = FALSE
    /\ countries = {}
    /\ products = {}
    /\ out = LoadFailed("")
    /\ reloaded = NotTried

Init == file \in SeqsUpTo(RenderRows, MaxRows) /\ Init0

InitLoad == file \in SeqsUpTo(LoadRowSet, MaxRows) /\ Init0

\* sixteen country and product pairs, one record each and a second record for
\* the last pair, in key order or in the reverse of it, with equal amounts
\* everywhere or with two amounts in turn
TopCountries == <<"Atlantis", "Australia", "Canada", "India">>

TopProducts == <<"Eclairs", "Milk Bars", "Mint Chip Choco", "White Choc">>

TopRow(j, alt) ==
    [Country |-> TopCountries[((j - 1) \div Len(TopProducts)) + 1],
     Product |-> TopProducts[((j - 1) % Len(TopProducts)) + 1],
     Date |-> D05Jan22,
     Amount |-> IF alt /\ j % 3 = 0 THEN <<"$","2">> ELSE <<"$","1">>,
     Boxes |-> 1]

TopFile(rev, alt) ==
    LET n == Len(TopCountries) * Len(TopProducts)
    IN [i \in 1..(n + 1) |->
           IF i = n + 1 THEN TopRow(n, FALSE)
           ELSE TopRow(IF rev THEN n + 1 - i ELSE i, alt)]

InitTop == file \in {TopFile(rev, alt) : rev \in BOOLEAN, alt \in BOOLEAN} /\ Init0

Spec == Init /\ [][Next]_vars

SpecTop == InitTop /\ [][Next]_vars

SpecLoad == InitLoad /\ [][Next]_vars

(***************************************************************************)
(* The claims.                                                             *)
(***************************************************************************)
\* the labels of the canonical rows that match the current selection
Selected ==
    {i \in 1..Len(cache.df) :
        cache.df[i].Country \in countries /\ cache.df[i].Product \in products}

\* the sum of the finite amounts of rows[i], i in I, in cents
RECURSIVE SumCents(_, _)
SumCents(rows, I) ==
    IF I = {} THEN 0
    ELSE LET i == CHOOSE j \in I : TRUE
         IN (IF rows[i].Amount.kind = "fin" THEN rows[i].Amount.v ELSE 0)
            + SumCents(rows, I \ {i})

\* C1: after a run, the filtered view is exactly the canonical rows whose
\* country is selected and whose product is selected, in the table's order;
\* with either selection empty it has no rows.
C1_FilterIsExactSubsequence ==
    widgets =>
        LET fd == out.filtered
        IN /\ Len(fd) = Cardinality(Selected)
           /\ \A k \in 1..Len(fd) : \E i \in Selected : fd[k] = cache.df[i]
           /\ \A k \in 1..(Len(fd) - 1) : fd[k].idx < fd[k + 1].idx
           /\ (countries = {} \/ products = {}) => fd = <<>>

\* C1's case: no country selected, products selected that the table holds
C1_EmptySelectionExcludesAll ==
    /\ widgets
    /\ countries = {}
    /\ \E i \in 1..Len(cache.df) : cache.df[i].Product \in products
    /\ out.filtered = <<>>

\* C2: when the filtered view has no rows, no section of the run raises, the
\* run reaches every section, every aggregate is empty and the top-country
\* summary is absent.
C2_EmptyViewDegrades ==
    (widgets /\ out.filtered = <<>>) =>
        /\ out.error = ""
        /\ out.sections = SectionNames
        /\ out.monthly_sales = <<>> /\ out.daily_sales = <<>>
        /\ out.top_combos = <<>> /\ out.country_sales = <<>>
        /\ out.top_products = <<>> /\ out.weekday_sales = <<>>
        /\ out.top_days = <<>> /\ out.growth_df = <<>> /\ out.ratio_df = <<>>
        /\ out.product_sales = <<>> /\ out.sunburst_data = <<>>
        /\ out.gauge = <<>>

\* C3: no row of the year-by-product growth table or of the product ratio
\* table that is handed to its chart carries an infinite or undefined ratio;
\* a group that shipped no box is left out or given a sentinel instead.
C3_NoUndefinedRatioReachesAChart ==
    /\ Shown(out, "Growth") =>
          \A i \in 1..Len(out.growth_df) : out.growth_df[i].Ratio.kind = "fin"
    /\ Shown(out, "Volume vs Revenue") =>
          \A i \in 1..Len(out.ratio_df) : out.ratio_df[i].Ratio.kind = "fin"

\* C4: a section that fails does not halt the run: every section that does
\* not itself fail, the raw-data export included, is rendered.
C4_FailingSectionIsIsolated ==
    widgets =>
        \A i \in 1..Len(SectionNames) :
            ~Raises(SectionNames[i], out.filtered) => Shown(out, SectionNames[i])

\* text that is a decimal number: digits, at most one ".", at least one digit
NumericText(s) ==
    /\ s # <<>>
    /\ \A i \in 1..Len(s) : s[i] \in {"0","1","2","3","4","5","6","7","8","9","."}
    /\ Cardinality({i \in 1..Len(s) : s[i] = "."}) <= 1
    /\ \E i \in 1..Len(s) : s[i] # "."

\* C5: load_data returns a table only when every row's amount, with "$" and
\* "," removed, is numeric, and no amount of a returned table is missing or
\* non-finite.
C5_MalformedAmountFailsLoad ==
    cache.set =>
        /\ \A i \in 1..Len(readRows) :
               NumericText(SelectSeq(readRows[i].Amount, LAMBDA c : c # "$" /\ c # ","))
        /\ \A k \in 1..Len(cache.df) : cache.df[k].Amount.kind = "fin"

\* the labels of the rows read whose date parses as %d-%b-%y
Parseable == {i \in 1..Len(readRows) : ~ToDatetime(readRows[i].Date).nat}

\* C6: the table load_data returns holds exactly the rows read whose date
\* parses, in the order read: one row less per unparseable date, none of the
\* others dropped or moved; and an unparseable date is never what makes
\* load_data raise.
C6_LoadKeepsParseableDates ==
    /\ cache.set =>
          /\ Len(cache.df) = Len(readRows) - Cardinality((1..Len(readRows)) \ Parseable)
          /\ {cache.df[k].idx : k \in 1..Len(cache.df)} = Parseable
          /\ \A k \in 1..(Len(cache.df) - 1) : cache.df[k].idx < cache.df[k + 1].idx
          /\ \A k \in 1..Len(cache.df) :
                LET r == readRows[cache.df[k].idx]
                IN /\ cache.df[k].Country = r.Country
                   /\ cache.df[k].Product = r.Product
                   /\ cache.df[k].Boxes = r.Boxes
    /\ (~cache.set /\ out.error # "") =>
          \/ ~AmountIsObject(readRows)
          \/ \E i \in 1..Len(readRows) : ~AmountOf(readRows[i].Amount).ok

\* C6's case: two rows read, one of them dated "not-a-date", one row kept
C6_BadDateDropped ==
    /\ cache.set
    /\ Len(readRows) = 2
    /\ \E i \in 1..2 : readRows[i].Date = DNotADate
    /\ Len(cache.df) = 1

\* the country and product pairs of the filtered view
CombosOf(fd) == {[Country |-> fd[i].Country, Product |-> fd[i].Product] : i \in 1..Len(fd)}

ComboRows(fd, k) == {i \in 1..Len(fd) : fd[i].Country = k.Country /\ fd[i].Product = k.Product}

\* k comes before l in the sorted order of the pairs
ComboBefore(k, l) ==
    \/ NameRank(k.Country) < NameRank(l.Country)
    \/ k.Country = l.Country /\ NameRank(k.Product) < NameRank(l.Product)

\* k is met before l when the filtered view is read from its first row
MetBefore(fd, k, l) ==
    \E i \in ComboRows(fd, k) : \A j \in ComboRows(fd, l) : i < j

\* what C7 says of the table apart from ties
TopCombosRanked(fd, t) ==
    /\ Len(t) = (IF Cardinality(CombosOf(fd)) < 15 THEN Cardinality(CombosOf(fd)) ELSE 15)
    /\ \A i \in 1..Len(t) :
          /\ t[i].key \in CombosOf(fd)
          /\ t[i].Amount = SumCents(fd, ComboRows(fd, t[i].key))
    /\ \A i, j \in 1..Len(t) : i < j => t[i].key # t[j].key /\ t[i].Amount >= t[j].Amount
    /\ \A k \in CombosOf(fd) :
          (\A i \in 1..Len(t) : t[i].key # k) =>
              \A i \in 1..Len(t) : SumCents(fd, ComboRows(fd, k)) <= t[i].Amount

\* the pairs k, l of equal sums of which the table ranks k before l, or
\* keeps k and leaves out l
TiedPairs(fd, t) ==
    LET ranked  == {p \in (1..Len(t)) \X (1..Len(t)) :
                       p[1] < p[2] /\ t[p[1]].Amount = t[p[2]].Amount}
        leftOut == {k \in CombosOf(fd) : \A i \in 1..Len(t) : t[i].key # k}
    IN {<<t[p[1]].key, t[p[2]].key>> : p \in ranked}
       \cup {<<t[p[1]].key, p[2]>> :
                p \in {q \in (1..Len(t)) \X leftOut :
                          t[q[1]].Amount = SumCents(fd, ComboRows(fd, q[2]))}}

\* C7 as amended: the top combos are min(15, number of pairs) rows, each with
\* its pair's sum, in descending order of the sum, no pair left out having a
\* larger sum than one kept; of pairs with equal sums the one that sorts
\* first by country, then product, is ranked first and kept at the cut.
C7_TopCombosTiesBySortedKey ==
    widgets =>
        /\ TopCombosRanked(out.filtered, out.top_combos)
        /\ \A p \in TiedPairs(out.filtered, out.top_combos) : ComboBefore(p[1], p[2])

\* C7 as stated: of pairs with equal sums the one met first in the filtered
\* view is ranked first and kept at the cut.
C7_TopCombosTiesByFirstEncounter ==
    widgets =>
        /\ TopCombosRanked(out.filtered, out.top_combos)
        /\ \A p \in TiedPairs(out.filtered, out.top_combos) :
              MetBefore(out.filtered, p[1], p[2])

\* C7's case: more than 15 pairs, and a pair left out whose sum equals that
\* of the last pair kept
C7_TieAtTheCut ==
    /\ widgets
    /\ Cardinality(CombosOf(out.filtered)) > 15
    /\ Len(out.top_combos) = 15
    /\ \E k \in CombosOf(out.filtered) :
          /\ \A i \in 1..15 : out.top_combos[i].key # k
          /\ SumCents(out.filtered, ComboRows(out.filtered, k)) = out.top_combos[15].Amount

\* C8: load_data on the exported file returns the rows of the filtered view
\* that was exported, with the same amounts.
C8_ExportReloads ==
    reloaded.tried =>
        /\ reloaded.error = ""
        /\ Len(reloaded.df) = Len(out.filtered)
        /\ \A i \in 1..Len(reloaded.df) :
              /\ reloaded.df[i].Country = out.filtered[i].Country
              /\ reloaded.df[i].Product = out.filtered[i].Product
              /\ reloaded.df[i].Date = out.filtered[i].Date
              /\ reloaded.df[i].Amount = out.filtered[i].Amount

\* C9 as stated: the file is read at most once in the life of the process.
C9_FileReadAtMostOnce == reads <= 1

\* C9 as amended: once a load_data call has returned a table, the table is
\* cached, the file is not read again, and every later run works on a table
\* equal to the cached one whatever was selected before; a call that raises
\* caches nothing, and the next run reads the file again.
C9_CachedTableIsReused ==
    [][/\ cache.set => (cache' = cache /\ reads' = reads /\ readRows' = readRows)
       /\ (cache.set /\ widgets') => out'.df = cache.df
       /\ (~cache.set /\ reads' # reads) =>
              /\ reads' = reads + 1
              /\ (cache'.set <=> widgets')
              /\ cache'.set => out'.df = cache'.df]_vars

\* C9's case: a table was cached from one read, the file has changed since,
\* and a run with another selection shows the cached table
C9_LaterRunUsesCache ==
    /\ cache.set
    /\ reads = 1
    /\ cache.df # <<>>
    /\ file # readRows
    /\ countries = {}
    /\ out.df = cache.df

\* C10: after every run the total and every table on the page are the
\* aggregates of exactly the canonical rows that match the selection as it is
\* now, and the gauge's total is that same total.
C10_DisplayedMatchesSelection ==
    widgets =>
        /\ out.total_sales = SumCents(cache.df, Selected)
        /\ out = RenderView(cache.df,
                            SelectSeq(cache.df, LAMBDA r : r.Country \in countries
                                                           /\ r.Product \in products))
        /\ out.gauge # <<>> => out.gauge[1].total_sales = out.total_sales

\* C10's case: one country was deselected and then a product, rows remain
C10_AfterSelectionChanges ==
    /\ widgets
    /\ countries # {} /\ countries # {cache.df[i].Country : i \in 1..Len(cache.df)}
    /\ products # {} /\ products # {cache.df[i].Product : i \in 1..Len(cache.df)}
    /\ out.total_sales > 0
    /\ out.total_sales < SumCents(cache.df, 1..Len(cache.df))

====
